---------------------------- MODULE Spec2Model ----------------------------
(***************************************************************************)
(* pullProject: reconciliation of a remote project against the local      *)
(* document store (spaces, workspaces, requests) and the calls it makes   *)
(* on the version-control client, as exercised by                          *)
(* app/sync/vcs/__tests__/pull-project.test.ts.                            *)
(*                                                                         *)
(* Identifiers are pairs <<prefix, n>>; the store's collections are sets  *)
(* of records, so that a duplicate record with the same _id is visible.   *)
(*                                                                         *)
(* get-token: app/network/o-auth-2/get-token.ts, which returns the OAuth2 *)
(* token stored for a request, refreshing or fetching it when needed.     *)
(***************************************************************************)
EXTENDS Integers, Sequences, FiniteSets

\* Number of pullProject invocations explored in one behaviour.
MaxRuns == 3

\* Invocation slots (callers that may have a pullProject in flight).
Procs == {"A", "B"}

\* The slot of a caller that awaits each invocation before starting the next.
Serial == {"A"}

NULL == <<"null", 0>>

DEFAULT_BRANCH_NAME == "master"

Team1 == <<"team", 1>>
Team2 == <<"team", 2>>
Wrk1 == <<"wrk", 1>>

\* The remote project descriptors handed to pullProject: the test's project,
\* and the same root document renamed and owned by another team.
Projects ==
  { [rootDocumentId |-> Wrk1, name |-> "My API",
     team |-> [id |-> Team1, name |-> "My Team"]],
    [rootDocumentId |-> Wrk1, name |-> "My API v2",
     team |-> [id |-> Team2, name |-> "Other Team"]] }

NoProject ==
  [rootDocumentId |-> NULL, name |-> "", team |-> [id |-> NULL, name |-> ""]]

NoSpace == [_id |-> NULL, remoteId |-> NULL, name |-> ""]

\* An invocation that does not follow a failed one for the same project.
NotResumed == [failed |-> FALSE, space |-> NoSpace]

\* The snapshot held by a slot that has not started an invocation.
NoStore == [spaces |-> {}, workspaces |-> {}, requests |-> {}]

NoWrites ==
  [spaceCreate |-> 0, workspaceCreate |-> 0, workspaceUpdate |-> 0,
   documentUpdate |-> 0]

VARIABLES
  spaces,         \* store: the space records
  workspaces,     \* store: the workspace records
  requests,       \* store: the request records
  idSeq,          \* store: number of space ids generated so far
  pc,             \* per invocation slot: position in pullProject
  project,        \* argument: the project being pulled
  remoteSpaces,   \* argument: the candidate list of remote spaces
  space,          \* local: the resolved space
  remoteBranches, \* local: what getRemoteBranches returned
  documents,      \* local: what allDocuments returned
  vcs,            \* argument: what the mocked client's queries resolve to
  calls,          \* the calls recorded by the version-control client
  writes,         \* store writes made by the invocation in flight
  pre,            \* the store as it was when the invocation started
  repeat,         \* the invocation repeats the previous, completed one
  resumed,        \* the invocation re-invokes the previous, failed one
  runs            \* invocations started so far

\* get-token.ts
VARIABLES
  oAuth2Tokens,   \* store: the OAuth2 token records
  tokenSeq,       \* store: number of token ids generated so far
  now,            \* Date.now(), in milliseconds
  gt,             \* the get-token invocation: arguments, locals, position
  invocations     \* get-token invocations started so far

pullVars ==
  <<spaces, workspaces, requests, idSeq, pc, project, remoteSpaces, space,
    remoteBranches, documents, vcs, calls, writes, pre, repeat, resumed, runs>>

tokenVars == <<oAuth2Tokens, tokenSeq, now, gt, invocations>>

vars == <<pullVars, tokenVars>>

store == <<spaces, workspaces, requests, idSeq>>

-----------------------------------------------------------------------------
\* Store and collaborator helpers.

isRemoteSpace(s) == s.remoteId # NULL

getByRemoteId(remoteId) == {s \in spaces : s.remoteId = remoteId}

generateId(n) == <<"spc", n>>

\* The space record the test arranges before pulling.
ExistingSpace ==
  [_id |-> generateId(1), remoteId |-> Team1, name |-> "My Team unique"]

\* The workspace records the tests arrange before pulling.
ExistingWorkspaces ==
  { [_id |-> Wrk1, name |-> "someName", parentId |-> NULL, scope |-> "design"],
    [_id |-> Wrk1, name |-> "My API", parentId |-> NULL, scope |-> "collection"] }

\* The request records arranged before pulling: one parented to the
\* workspace, one parented to a folder.
ExistingRequests ==
  { [_id |-> <<"req", 1>>, parentId |-> Wrk1],
    [_id |-> <<"req", 2>>, parentId |-> <<"fld", 1>>] }

\* A document as the version-control client returns it.
WorkspaceDoc(w) == [type |-> "Workspace", _id |-> w._id, parentId |-> w.parentId]

RequestDoc(r) == [type |-> "Request", _id |-> r._id, parentId |-> r.parentId]

\* The document sets allDocuments() may resolve to for a project: nothing, the
\* project's workspace (as the store holds it, or unparented as the remote
\* holds it when the store has none), the workspace with the requests
\* parented to it, and the workspace with all requests.
KnownDocuments(proj) ==
  LET local == {w \in workspaces : w._id = proj.rootDocumentId}
      wrk == IF local = {}
             THEN {[type |-> "Workspace", _id |-> proj.rootDocumentId,
                    parentId |-> NULL]}
             ELSE {WorkspaceDoc(w) : w \in local}
      all == {RequestDoc(r) : r \in requests}
      children == {d \in all : d.parentId = proj.rootDocumentId}
  IN {{}, wrk, wrk \cup children, wrk \cup all}

SetProjectCall(proj) == [op |-> "setProject", args |-> <<proj>>]

GetRemoteBranchesCall == [op |-> "getRemoteBranches", args |-> <<>>]

AllDocumentsCall == [op |-> "allDocuments", args |-> <<>>]

\* Mutant: the checkout targets another branch than the fixed default.
CheckoutCallOtherBranch == [op |-> "checkout", args |-> <<<<>>, "main">>]

CheckoutCall == [op |-> "checkout", args |-> <<<<>>, DEFAULT_BRANCH_NAME>>]

\* Mutant: the pull is keyed by the space's local _id.
PullCallByLocalId(spc) == [op |-> "pull", args |-> <<<<>>, spc._id>>]

PullCall(spc) == [op |-> "pull", args |-> <<<<>>, spc.remoteId>>]

\* Space Resolver: the candidates bound to remoteId; the store is searched
\* only when no candidate list was supplied.
FindSpace(cands, remoteId) ==
  IF cands.supplied
  THEN {s \in cands.list : s.remoteId = remoteId}
  ELSE getByRemoteId(remoteId)

\* Mutant: the created space is not bound to the remote team.
NewSpaceUnbound(id, remoteId, name) ==
  [_id |-> id, remoteId |-> NULL, name |-> name]

NewSpace(id, remoteId, name) == [_id |-> id, remoteId |-> remoteId, name |-> name]

\* Mutant: the created workspace is left without a parent.
NewWorkspaceOrphan(proj, spc) ==
  [_id |-> proj.rootDocumentId, name |-> proj.name,
   parentId |-> NULL, scope |-> "collection"]

NewWorkspace(proj, spc) ==
  [_id |-> proj.rootDocumentId, name |-> proj.name,
   parentId |-> spc._id, scope |-> "collection"]

NeedsUpdate(w, proj, spc) == w.name # proj.name \/ w.parentId # spc._id

\* Mutant: only the name of an existing workspace is corrected.
UpdatedWorkspaceNameOnly(w, proj, spc) == [w EXCEPT !.name = proj.name]

UpdatedWorkspace(w, proj, spc) ==
  [w EXCEPT !.name = proj.name, !.parentId = spc._id]

\* Mutant: every document parented to the workspace is re-parented to the
\* space (the orphan-document correction).
OrphanCorrectedParentId(doc, wrkId, spcId) ==
  IF doc.type = "Workspace" \/ doc.parentId = wrkId THEN spcId ELSE doc.parentId

\* Mutant: every returned document is re-parented to the space.
AlwaysOverwrittenParentId(doc, wrkId, spcId) == spcId

\* The parentId a document returned by allDocuments ends up with: only the
\* workspace is overwritten with the space id; the test requires a request
\* parented to the workspace to stay strictly equal to what it was.
OverwrittenParentId(doc, wrkId, spcId) ==
  IF doc.type = "Workspace" /\ doc._id = wrkId THEN spcId ELSE doc.parentId

\* Mutant: the continuation path is taken whatever the branch list.
NeverFirstPull(branches) == FALSE

IsFirstPull(branches) == branches = <<>>

Bump(w, p, kind, n) == [w EXCEPT ![p][kind] = @ + n]

-----------------------------------------------------------------------------
\* get-token.ts: values, store and pure functions.

\* Seconds of clock time and get-token invocations explored in one behaviour.
MaxSeconds == 3

MaxInvocations == 3

\* Milliseconds per second: expiresIn * 1000.
Second == 1000

\* null and undefined, among strings.
Null == "null"

Undefined == "undefined"

\* A number that may be missing is <<>> (null, undefined) or <<n>>.
NoNumber == <<>>

RequestIds == {"req_1", "req_2"}

GRANT_TYPE_AUTHORIZATION_CODE == "authorization_code"

GRANT_TYPE_CLIENT_CREDENTIALS == "client_credentials"

GRANT_TYPE_IMPLICIT == "implicit"

GRANT_TYPE_PASSWORD == "password"

GrantTypes ==
  {GRANT_TYPE_AUTHORIZATION_CODE, GRANT_TYPE_CLIENT_CREDENTIALS,
   GRANT_TYPE_IMPLICIT, GRANT_TYPE_PASSWORD}

\* A grantType the switch has no case for.
OtherGrantType == "mystery"

\* What an authorization server's answer is parsed to (authResults).
Response(at, rt, exp, id, err, desc) ==
  [access_token |-> at, refresh_token |-> rt, expires_in |-> exp,
   id_token |-> id, error |-> err, error_description |-> desc,
   error_uri |-> Undefined, x_response_id |-> "res_1", x_error |-> Undefined]

\* A token with a refresh token, a token without one, an error, and an answer
\* whose fields are present but falsy.
Granted == Response("at_1", "rt_1", <<1>>, "id_1", Undefined, Undefined)

GrantedNoRefresh ==
  Response("at_2", Undefined, <<1>>, Undefined, Undefined, Undefined)

Denied ==
  Response(Undefined, Undefined, NoNumber, Undefined, "invalid_grant", "denied")

Blank == Response("", "", <<0>>, "", "", "")

Responses == {Granted, GrantedNoRefresh, Denied, Blank}

\* value || null
OrNull(v) == IF v \in {Undefined, Null, ""} THEN Null ELSE v

\* The truthiness of a string that may be missing.
IsSet(v) == v \notin {Undefined, Null, ""}

\* The record getOrCreateByParentId creates.
NewToken(id, parentId) ==
  [_id |-> id, parentId |-> parentId, expiresAt |-> NoNumber,
   refreshToken |-> Null, accessToken |-> Null, identityToken |-> Null,
   error |-> Null, errorDescription |-> Null, errorUri |-> Null,
   xResponseId |-> Null, xError |-> Null]

getByParentId(requestId) == {t \in oAuth2Tokens : t.parentId = requestId}

\* Mutant: a token without expiresAt counts as expired.
isExpiredWithoutDeadline(token, t) ==
  LET expiresAt == token.expiresAt
  IN IF expiresAt = NoNumber \/ expiresAt[1] = 0
     THEN TRUE
     ELSE t > expiresAt[1]

\* Mutant: the deadline itself counts as expired.
isExpiredAtDeadline(token, t) ==
  LET expiresAt == token.expiresAt
  IN IF expiresAt = NoNumber \/ expiresAt[1] = 0
     THEN FALSE
     ELSE t >= expiresAt[1]

\* expiresAt = token.expiresAt || Infinity; isExpired = Date.now() > expiresAt
isExpired(token, t) ==
  LET expiresAt == token.expiresAt
  IN IF expiresAt = NoNumber \/ expiresAt[1] = 0
     THEN FALSE
     ELSE t > expiresAt[1]

\* Mutant: any answer to the refresh request counts as a success.
AnyAnswerRefreshes(refreshResults) == TRUE

\* The refresh succeeded: !refreshResults.access_token is false.
Refreshed(refreshResults) == IsSet(refreshResults.access_token)

\* expiresIn ? Date.now() + expiresIn * 1000 : null
ExpiresAt(expiresIn, t) ==
  IF expiresIn # NoNumber /\ expiresIn[1] # 0
  THEN <<t + expiresIn[1] * Second>>
  ELSE NoNumber

\* Mutant: a response without refresh_token leaves the stored one in place.
PatchKeepingRefreshToken(token, authResults, t) ==
  [token EXCEPT
     !.expiresAt = ExpiresAt(authResults.expires_in, t),
     !.refreshToken = IF IsSet(authResults.refresh_token)
                      THEN authResults.refresh_token ELSE token.refreshToken,
     !.accessToken = OrNull(authResults.access_token),
     !.identityToken = OrNull(authResults.id_token),
     !.error = OrNull(authResults.error),
     !.errorDescription = OrNull(authResults.error_description),
     !.errorUri = OrNull(authResults.error_uri),
     !.xResponseId = OrNull(authResults.x_response_id),
     !.xError = OrNull(authResults.x_error)]

\* The record models.oAuth2Token.update is given the patch of.
Patch(token, authResults, t) ==
  [token EXCEPT
     !.expiresAt = ExpiresAt(authResults.expires_in, t),
     !.refreshToken = OrNull(authResults.refresh_token),
     !.accessToken = OrNull(authResults.access_token),
     !.identityToken = OrNull(authResults.id_token),
     !.error = OrNull(authResults.error),
     !.errorDescription = OrNull(authResults.error_description),
     !.errorUri = OrNull(authResults.error_uri),
     !.xResponseId = OrNull(authResults.x_response_id),
     !.xError = OrNull(authResults.x_error)]

\* No get-token invocation: arguments, the token found (<<>> or <<token>>),
\* the time of the expiry check, the answers received, the value returned
\* (<<>> is null), the requests sent and store writes made, and the store as
\* it was when the invocation started.
NoInvocation ==
  [pc |-> "Idle", requestId |-> "", grantType |-> "", forceRefresh |-> FALSE,
   token |-> <<>>, checkedAt |-> 0, refreshResults |-> <<>>, results |-> <<>>,
   returned |-> <<>>, refreshRequests |-> 0, grantRequests |-> 0,
   storeWrites |-> 0, stored |-> {}]

\* get-token is not in use.
TokenQuiet ==
  /\ oAuth2Tokens = {}
  /\ tokenSeq = 0
  /\ now = Second
  /\ gt = NoInvocation
  /\ invocations = 0

-----------------------------------------------------------------------------

\* No pullProject has been invoked.
PullIdle ==
  /\ pc = [p \in Procs |-> "Idle"]
  /\ project = [p \in Procs |-> NoProject]
  /\ remoteSpaces = [p \in Procs |-> [supplied |-> FALSE, list |-> {}]]
  /\ space = [p \in Procs |-> NoSpace]
  /\ remoteBranches = [p \in Procs |-> <<>>]
  /\ documents = [p \in Procs |-> {}]
  /\ calls = [p \in Procs |-> <<>>]
  /\ writes = [p \in Procs |-> NoWrites]
  /\ pre = [p \in Procs |-> NoStore]
  /\ vcs = [p \in Procs |-> [remoteBranches |-> <<>>, allDocuments |-> {}]]
  /\ repeat = [p \in Procs |-> FALSE]
  /\ resumed = [p \in Procs |-> NotResumed]
  /\ runs = 0

Init ==
  /\ spaces \in {{}, {ExistingSpace}}
  /\ idSeq = Cardinality(spaces)
  /\ workspaces \in {{}} \cup {{w} : w \in ExistingWorkspaces}
  /\ requests \in {{}, ExistingRequests}
  /\ PullIdle
  /\ TokenQuiet

\* The caller invokes pullProject({ vcs, project, remoteSpaces }) with a mock
\* whose call record is empty; remoteSpaces is a (possibly stale) list of
\* remote spaces fetched from the store, or is not supplied.
PullProject(p, proj, cands, mock) ==
  /\ pc[p] \in {"Idle", "CheckedOut", "Failed"}
  /\ \A q \in Procs : pc[q] \in {"Idle", "CheckedOut", "Failed"}
  /\ runs < MaxRuns
  /\ runs' = runs + 1
  /\ pc' = [pc EXCEPT ![p] = "Unbound"]
  /\ project' = [project EXCEPT ![p] = proj]
  /\ remoteSpaces' = [remoteSpaces EXCEPT ![p] = cands]
  /\ space' = [space EXCEPT ![p] = NoSpace]
  /\ remoteBranches' = [remoteBranches EXCEPT ![p] = <<>>]
  /\ documents' = [documents EXCEPT ![p] = {}]
  /\ calls' = [calls EXCEPT ![p] = <<>>]
  /\ writes' = [writes EXCEPT ![p] = NoWrites]
  /\ pre' = [pre EXCEPT ![p] =
              [spaces |-> spaces, workspaces |-> workspaces, requests |-> requests]]
  /\ vcs' = [vcs EXCEPT ![p] = mock]
  /\ repeat' = [repeat EXCEPT ![p] =
                 pc[p] = "CheckedOut" /\ proj = project[p] /\ mock = vcs[p]]
  /\ resumed' = [resumed EXCEPT ![p] =
                  IF pc[p] = "Failed" /\ proj = project[p]
                  THEN [failed |-> TRUE,
                        space |-> IF writes[p].spaceCreate = 1
                                  THEN space[p] ELSE NoSpace]
                  ELSE NotResumed]
  /\ UNCHANGED <<store, tokenVars>>

\* 4.1: find the space bound to project.team.id, or create it.
ResolveSpace(p) ==
  /\ pc[p] = "Unbound"
  /\ LET remoteId == project[p].team.id
         name == project[p].team.name
         found == FindSpace(remoteSpaces[p], remoteId)
     IN IF found # {}
        THEN /\ \E s \in found : space' = [space EXCEPT ![p] = s]
             /\ UNCHANGED <<spaces, idSeq, writes>>
        ELSE LET created == NewSpace(generateId(idSeq + 1), remoteId, name)
             IN /\ spaces' = spaces \cup {created}
                /\ idSeq' = idSeq + 1
                /\ space' = [space EXCEPT ![p] = created]
                /\ writes' = Bump(writes, p, "spaceCreate", 1)
  /\ pc' = [pc EXCEPT ![p] = "SpaceResolved"]
  /\ UNCHANGED <<workspaces, requests, project, remoteSpaces, remoteBranches,
                 documents, calls, vcs, pre, repeat, resumed, runs, tokenVars>>

\* 4.2: find the workspace of project.rootDocumentId, create it or bring its
\* name and parentId in line with the project and the space.
ReconcileWorkspace(p) ==
  /\ pc[p] = "SpaceResolved"
  /\ LET existing == {w \in workspaces : w._id = project[p].rootDocumentId}
     IN IF existing = {}
        THEN /\ workspaces' = workspaces \cup {NewWorkspace(project[p], space[p])}
             /\ writes' = Bump(writes, p, "workspaceCreate", 1)
        ELSE \E w \in existing :
               IF NeedsUpdate(w, project[p], space[p])
               THEN /\ workspaces' =
                         (workspaces \ {w})
                           \cup {UpdatedWorkspace(w, project[p], space[p])}
                    /\ writes' = Bump(writes, p, "workspaceUpdate", 1)
               ELSE UNCHANGED <<workspaces, writes>>
  /\ pc' = [pc EXCEPT ![p] = "WorkspaceReconciled"]
  /\ UNCHANGED <<spaces, requests, idSeq, project, remoteSpaces, space,
                 remoteBranches, documents, calls, vcs, pre, repeat, resumed, runs, tokenVars>>

\* 4.3 step 4: vcs.setProject(project).
SetProject(p) ==
  /\ pc[p] = "WorkspaceReconciled"
  /\ calls' = [calls EXCEPT ![p] = Append(@, SetProjectCall(project[p]))]
  /\ pc' = [pc EXCEPT ![p] = "ClientBound"]
  /\ UNCHANGED <<store, project, remoteSpaces, space, remoteBranches,
                 documents, writes, vcs, pre, repeat, resumed, runs, tokenVars>>

\* 4.3 step 5: vcs.getRemoteBranches() resolves to what the mock was given.
GetRemoteBranches(p) ==
  /\ pc[p] = "ClientBound"
  /\ LET branches == vcs[p].remoteBranches IN
     /\ calls' = [calls EXCEPT ![p] = Append(@, GetRemoteBranchesCall)]
     /\ remoteBranches' = [remoteBranches EXCEPT ![p] = branches]
     /\ pc' = [pc EXCEPT ![p] =
                IF IsFirstPull(branches) THEN "FirstPull" ELSE "ContinuationPull"]
  /\ UNCHANGED <<store, project, remoteSpaces, space, documents, writes,
                 vcs, pre, repeat, resumed, runs, tokenVars>>

\* Continuation: vcs.allDocuments() resolves to what the mock was given.
AllDocuments(p) ==
  /\ pc[p] = "ContinuationPull"
  /\ calls' = [calls EXCEPT ![p] = Append(@, AllDocumentsCall)]
  /\ documents' = [documents EXCEPT ![p] = vcs[p].allDocuments]
  /\ pc' = [pc EXCEPT ![p] = "DocumentsFetched"]
  /\ UNCHANGED <<store, project, remoteSpaces, space, remoteBranches, writes,
                 vcs, pre, repeat, resumed, runs, tokenVars>>

\* Continuation: the parentId of the documents returned by allDocuments.
CorrectDocuments(p) ==
  /\ pc[p] = "DocumentsFetched"
  /\ LET spcId == space[p]._id
         wrkId == project[p].rootDocumentId
         fixW(w) ==
           IF \E d \in documents[p] : d.type = "Workspace" /\ d._id = w._id
           THEN [w EXCEPT !.parentId = OverwrittenParentId(WorkspaceDoc(w), wrkId, spcId)]
           ELSE w
         fixR(r) ==
           IF \E d \in documents[p] : d.type = "Request" /\ d._id = r._id
           THEN [r EXCEPT !.parentId = OverwrittenParentId(RequestDoc(r), wrkId, spcId)]
           ELSE r
         changed ==
           Cardinality({w \in workspaces : fixW(w) # w})
             + Cardinality({r \in requests : fixR(r) # r})
     IN /\ workspaces' = {fixW(w) : w \in workspaces}
        /\ requests' = {fixR(r) : r \in requests}
        /\ writes' = Bump(writes, p, "documentUpdate", changed)
  /\ pc' = [pc EXCEPT ![p] = "DocumentsCorrected"]
  /\ UNCHANGED <<spaces, idSeq, project, remoteSpaces, space, remoteBranches,
                 documents, calls, vcs, pre, repeat, resumed, runs, tokenVars>>

\* Continuation: vcs.pull([], space.remoteId).
Pull(p) ==
  /\ pc[p] = "DocumentsCorrected"
  /\ calls' = [calls EXCEPT ![p] = Append(@, PullCall(space[p]))]
  /\ pc' = [pc EXCEPT ![p] = "Pulled"]
  /\ UNCHANGED <<store, project, remoteSpaces, space, remoteBranches,
                 documents, writes, vcs, pre, repeat, resumed, runs, tokenVars>>

\* Mutant: the checkout is issued right after the client is bound, before the
\* remote branches are queried.
CheckoutBeforeBranches(p) ==
  /\ pc[p] = "ClientBound"
  /\ \A i \in DOMAIN calls[p] : calls[p][i].op # "checkout"
  /\ calls' = [calls EXCEPT ![p] = Append(@, CheckoutCall)]
  /\ UNCHANGED <<store, pc, project, remoteSpaces, space, remoteBranches,
                 documents, writes, vcs, pre, repeat, resumed, runs, tokenVars>>

\* vcs.checkout([], DEFAULT_BRANCH_NAME), the last call of both paths.
Checkout(p) ==
  /\ pc[p] \in {"FirstPull", "Pulled"}
  /\ calls' = [calls EXCEPT ![p] = Append(@, CheckoutCall)]
  /\ pc' = [pc EXCEPT ![p] = "CheckedOut"]
  /\ UNCHANGED <<store, project, remoteSpaces, space, remoteBranches,
                 documents, writes, vcs, pre, repeat, resumed, runs, tokenVars>>

\* Mutant: a failing step undoes the writes the invocation has made.
FailWithRollback(p) ==
  /\ pc[p] \notin {"Idle", "CheckedOut", "Failed"}
  /\ pc' = [pc EXCEPT ![p] = "Failed"]
  /\ spaces' = pre[p].spaces
  /\ workspaces' = pre[p].workspaces
  /\ requests' = pre[p].requests
  /\ UNCHANGED <<idSeq, project, remoteSpaces, space, remoteBranches,
                 documents, calls, writes, vcs, pre, repeat, resumed, runs, tokenVars>>

\* A store or version-control-client step rejects: the sequence aborts there.
Fail(p) ==
  /\ pc[p] \notin {"Idle", "CheckedOut", "Failed"}
  /\ pc' = [pc EXCEPT ![p] = "Failed"]
  /\ UNCHANGED <<store, project, remoteSpaces, space, remoteBranches,
                 documents, calls, writes, vcs, pre, repeat, resumed, runs, tokenVars>>

\* The candidate lists a caller may pass: none, the empty list, or the
\* remote spaces the store holds.
CandidateLists ==
  { [supplied |-> FALSE, list |-> {}],
    [supplied |-> TRUE, list |-> {}],
    [supplied |-> TRUE, list |-> {s \in spaces : isRemoteSpace(s)}] }

\* What the mocked client resolves its queries to: no remote branch (and
\* allDocuments never set up), the default branch and a set of documents, or
\* what it resolved them to in the previous invocation.
Mocks(p, proj) ==
  {[remoteBranches |-> <<>>, allDocuments |-> {}]}
    \cup {[remoteBranches |-> <<DEFAULT_BRANCH_NAME>>, allDocuments |-> docs] :
            docs \in KnownDocuments(proj)}
    \cup {vcs[p]}

Next ==
  \E p \in Serial :
    \/ \E proj \in Projects : \E cands \in CandidateLists :
         \E mock \in Mocks(p, proj) : PullProject(p, proj, cands, mock)
    \/ ResolveSpace(p)
    \/ ReconcileWorkspace(p)
    \/ SetProject(p)
    \/ GetRemoteBranches(p)
    \/ AllDocuments(p)
    \/ CorrectDocuments(p)
    \/ Pull(p)
    \/ Checkout(p)
    \/ Fail(p)

Spec == Init /\ [][Next]_vars

-----------------------------------------------------------------------------
\* Two callers invoke pullProject for the same project without awaiting each
\* other. The resolver then shows its two suspension points: ResolveSpace is
\* LookupSpace followed at once by ProvideSpace, which is all a serialized
\* caller can observe; here the other invocation may run in between.

PullProjectConcurrently(p, proj, cands, mock) ==
  /\ pc[p] = "Idle"
  /\ \A q \in Procs : pc[q] # "Idle" => project[q] = proj
  /\ runs' = runs + 1
  /\ pc' = [pc EXCEPT ![p] = "Unbound"]
  /\ project' = [project EXCEPT ![p] = proj]
  /\ remoteSpaces' = [remoteSpaces EXCEPT ![p] = cands]
  /\ calls' = [calls EXCEPT ![p] = <<>>]
  /\ writes' = [writes EXCEPT ![p] = NoWrites]
  /\ pre' = [pre EXCEPT ![p] =
              [spaces |-> spaces, workspaces |-> workspaces, requests |-> requests]]
  /\ vcs' = [vcs EXCEPT ![p] = mock]
  /\ UNCHANGED <<store, space, remoteBranches, documents, repeat, resumed,
                 tokenVars>>

\* 4.1, first half: search the candidate list, or the store, for the space.
LookupSpace(p) ==
  /\ pc[p] = "Unbound"
  /\ LET found == FindSpace(remoteSpaces[p], project[p].team.id)
     IN IF found # {}
        THEN \E s \in found : space' = [space EXCEPT ![p] = s]
        ELSE space' = [space EXCEPT ![p] = NoSpace]
  /\ pc' = [pc EXCEPT ![p] = "SpaceLookedUp"]
  /\ UNCHANGED <<store, project, remoteSpaces, remoteBranches, documents,
                 calls, writes, vcs, pre, repeat, resumed, runs, tokenVars>>

\* Mutant: the space is created only if the store still holds none for the
\* team, as it would be under a lock or a uniqueness constraint.
ProvideSpaceOnce(p) ==
  /\ pc[p] = "SpaceLookedUp"
  /\ LET stored == getByRemoteId(project[p].team.id)
     IN IF space[p] # NoSpace \/ stored # {}
        THEN /\ space' = [space EXCEPT ![p] =
                           IF space[p] # NoSpace THEN space[p]
                           ELSE CHOOSE s \in stored : TRUE]
             /\ UNCHANGED <<spaces, idSeq, writes>>
        ELSE LET created == NewSpace(generateId(idSeq + 1),
                                     project[p].team.id, project[p].team.name)
             IN /\ spaces' = spaces \cup {created}
                /\ idSeq' = idSeq + 1
                /\ space' = [space EXCEPT ![p] = created]
                /\ writes' = Bump(writes, p, "spaceCreate", 1)
  /\ pc' = [pc EXCEPT ![p] = "SpaceResolved"]
  /\ UNCHANGED <<workspaces, requests, project, remoteSpaces, remoteBranches,
                 documents, calls, vcs, pre, repeat, resumed, runs, tokenVars>>

\* 4.1, second half: use the space the lookup found, or create one.
ProvideSpace(p) ==
  /\ pc[p] = "SpaceLookedUp"
  /\ IF space[p] # NoSpace
     THEN UNCHANGED <<spaces, idSeq, space, writes>>
     ELSE LET created == NewSpace(generateId(idSeq + 1),
                                  project[p].team.id, project[p].team.name)
          IN /\ spaces' = spaces \cup {created}
             /\ idSeq' = idSeq + 1
             /\ space' = [space EXCEPT ![p] = created]
             /\ writes' = Bump(writes, p, "spaceCreate", 1)
  /\ pc' = [pc EXCEPT ![p] = "SpaceResolved"]
  /\ UNCHANGED <<workspaces, requests, project, remoteSpaces, remoteBranches,
                 documents, calls, vcs, pre, repeat, resumed, runs, tokenVars>>

\* The mocks of the concurrent callers: no remote branch, or the default
\* branch with allDocuments resolving to no document.
ConcurrentMocks(p, proj) == {m \in Mocks(p, proj) : m.allDocuments = {}}

NextConcurrent ==
  \E p \in Procs :
    \/ \E proj \in Projects : \E cands \in CandidateLists :
         \E mock \in ConcurrentMocks(p, proj) :
           PullProjectConcurrently(p, proj, cands, mock)
    \/ LookupSpace(p)
    \/ ProvideSpace(p)
    \/ ReconcileWorkspace(p)
    \/ SetProject(p)
    \/ GetRemoteBranches(p)
    \/ AllDocuments(p)
    \/ CorrectDocuments(p)
    \/ Pull(p)
    \/ Checkout(p)

SpecConcurrent == Init /\ [][NextConcurrent]_vars

-----------------------------------------------------------------------------
\* get-token.ts: one invocation at a time, a step per awaited call.

\* Tokens another part of the application has stored for req_1: one that
\* expires a second from now, one that never expires, and one whose expiresAt
\* is 0.
StoredTokens ==
  { [NewToken(1, "req_1") EXCEPT !.expiresAt = <<Second + Second>>,
       !.accessToken = "at_0", !.refreshToken = "rt_0"],
    [NewToken(1, "req_1") EXCEPT !.accessToken = "at_0"],
    [NewToken(1, "req_1") EXCEPT !.expiresAt = <<0>>,
       !.accessToken = "at_0", !.refreshToken = "rt_0"] }

TokenInit ==
  /\ oAuth2Tokens \in {{}} \cup {{t} : t \in StoredTokens}
  /\ tokenSeq = Cardinality(oAuth2Tokens)
  /\ now = Second
  /\ gt = NoInvocation
  /\ invocations = 0
  /\ spaces = {}
  /\ idSeq = 0
  /\ workspaces = {}
  /\ requests = {}
  /\ PullIdle

\* The exported function: dispatch on authentication.grantType.
GetToken(requestId, grantType, forceRefresh) ==
  /\ gt.pc \in {"Idle", "Returned"}
  /\ invocations < MaxInvocations
  /\ invocations' = invocations + 1
  /\ gt' = [NoInvocation EXCEPT
              !.pc = IF grantType \in GrantTypes
                     THEN "GetAccessToken" ELSE "Returned",
              !.requestId = requestId,
              !.grantType = grantType,
              !.forceRefresh = forceRefresh,
              !.stored = oAuth2Tokens]
  /\ UNCHANGED <<oAuth2Tokens, tokenSeq, now, pullVars>>

\* _getAccessToken up to the refresh request, and the caller's test of what
\* it returned: the stored token, or null (the grant flow follows).
GetAccessToken ==
  /\ gt.pc = "GetAccessToken"
  /\ LET found == getByParentId(gt.requestId)
     IN IF found = {}
        THEN gt' = [gt EXCEPT !.pc = "Grant"]
        ELSE \E token \in found :
               gt' = [gt EXCEPT
                        !.token = <<token>>,
                        !.checkedAt = now,
                        !.pc = IF ~isExpired(token, now) /\ ~gt.forceRefresh
                               THEN "Returned"
                               ELSE IF ~IsSet(token.refreshToken)
                                    THEN "Grant" ELSE "Refresh",
                        !.returned =
                               IF ~isExpired(token, now) /\ ~gt.forceRefresh
                               THEN <<token>> ELSE <<>>]
  /\ UNCHANGED <<oAuth2Tokens, tokenSeq, now, invocations, pullVars>>

\* refreshAccessToken(..., token.refreshToken, ...) and the test of its
\* answer.
RefreshAccessToken(refreshResults) ==
  /\ gt.pc = "Refresh"
  /\ gt' = [gt EXCEPT
              !.refreshRequests = @ + 1,
              !.refreshResults = <<refreshResults>>,
              !.results = IF Refreshed(refreshResults)
                          THEN <<refreshResults>> ELSE <<>>,
              !.pc = IF Refreshed(refreshResults) THEN "Update" ELSE "Grant"]
  /\ UNCHANGED <<oAuth2Tokens, tokenSeq, now, invocations, pullVars>>

\* getAccessTokenAuthorizationCode, ...ClientCredentials, ...Implicit or
\* ...Password, as the grant type says.
GetAccessTokenGrant(results) ==
  /\ gt.pc = "Grant"
  /\ gt' = [gt EXCEPT
              !.grantRequests = @ + 1,
              !.results = <<results>>,
              !.pc = "Update"]
  /\ UNCHANGED <<oAuth2Tokens, tokenSeq, now, invocations, pullVars>>

\* Mutant: the answer is stored in a record of its own.
InsertOAuth2Token ==
  /\ gt.pc = "Update"
  /\ LET updated == Patch(NewToken(tokenSeq + 1, gt.requestId),
                          gt.results[1], now)
     IN /\ oAuth2Tokens' = oAuth2Tokens \cup {updated}
        /\ tokenSeq' = tokenSeq + 1
        /\ gt' = [gt EXCEPT !.pc = "Returned", !.returned = <<updated>>,
                            !.storeWrites = @ + 1]
  /\ UNCHANGED <<now, invocations, pullVars>>

\* _updateOAuth2Token: the record of the request is found or created, then
\* updated from the answer.
UpdateOAuth2Token ==
  /\ gt.pc = "Update"
  /\ LET found == getByParentId(gt.requestId)
     IN IF found = {}
        THEN LET updated == Patch(NewToken(tokenSeq + 1, gt.requestId),
                                  gt.results[1], now)
             IN /\ oAuth2Tokens' = oAuth2Tokens \cup {updated}
                /\ tokenSeq' = tokenSeq + 1
                /\ gt' = [gt EXCEPT !.pc = "Returned",
                                    !.returned = <<updated>>,
                                    !.storeWrites = @ + 2]
        ELSE \E oAuth2Token \in found :
               LET updated == Patch(oAuth2Token, gt.results[1], now)
               IN /\ oAuth2Tokens' =
                       (oAuth2Tokens \ {oAuth2Token}) \cup {updated}
                  /\ tokenSeq' = tokenSeq
                  /\ gt' = [gt EXCEPT !.pc = "Returned",
                                      !.returned = <<updated>>,
                                      !.storeWrites = @ + 1]
  /\ UNCHANGED <<now, invocations, pullVars>>

\* A second passes.
Tick ==
  /\ now < Second * MaxSeconds
  /\ now' = now + Second
  /\ UNCHANGED <<oAuth2Tokens, tokenSeq, gt, invocations, pullVars>>

TokenNext ==
  \/ \E requestId \in RequestIds :
       \E grantType \in GrantTypes \cup {OtherGrantType} :
         \E forceRefresh \in BOOLEAN :
           GetToken(requestId, grantType, forceRefresh)
  \/ GetAccessToken
  \/ \E refreshResults \in Responses : RefreshAccessToken(refreshResults)
  \/ \E results \in Responses : GetAccessTokenGrant(results)
  \/ UpdateOAuth2Token
  \/ Tick

TokenSpec == TokenInit /\ [][TokenNext]_vars

-----------------------------------------------------------------------------
\* Vocabulary of the properties.

Completed(p) == pc[p] = "CheckedOut"

Continuation(p) == vcs[p].remoteBranches # <<>>

CallsTo(p, op) == {i \in DOMAIN calls[p] : calls[p][i].op = op}

RootId(p) == project[p].rootDocumentId

TeamId(p) == project[p].team.id

\* The workspaces of the store, now and before the invocation, that carry the
\* project's root document id.
Roots(p) == {w \in workspaces : w._id = RootId(p)}

RootsBefore(p) == {w \in pre[p].workspaces : w._id = RootId(p)}

\* The supplied candidates bound to the project's team.
BoundCandidates(p) ==
  IF remoteSpaces[p].supplied
  THEN {s \in remoteSpaces[p].list : s.remoteId = TeamId(p)}
  ELSE {}

\* The resolved space is a space of the store bound to the project's team.
Resolved(p) == space[p] \in spaces /\ space[p].remoteId = TeamId(p)

-----------------------------------------------------------------------------
\* C1: an invocation never records more than one checkout, every checkout it
\* records has the arguments ([], DEFAULT_BRANCH_NAME), and an invocation that
\* completes has recorded exactly one, on the first-pull and on the
\* continuation path alike.
C1_CheckoutOnce ==
  \A p \in Procs :
    /\ Cardinality(CallsTo(p, "checkout")) <= 1
    /\ \A i \in CallsTo(p, "checkout") :
         calls[p][i].args = <<<<>>, DEFAULT_BRANCH_NAME>>
    /\ Completed(p) => Cardinality(CallsTo(p, "checkout")) = 1

C1_Witness ==
  \E p \in Procs :
    /\ Completed(p)
    /\ Continuation(p)
    /\ calls[p][Len(calls[p])].op = "checkout"
    /\ runs >= 2

\* C2: while getRemoteBranches resolves to the empty list no pull is recorded;
\* otherwise at most one pull is recorded, with the arguments
\* ([], remoteId of the resolved space), and exactly one once the invocation
\* has completed.
C2_PullOnlyOnContinuation ==
  \A p \in Procs :
    /\ ~Continuation(p) => CallsTo(p, "pull") = {}
    /\ Cardinality(CallsTo(p, "pull")) <= 1
    /\ \A i \in CallsTo(p, "pull") :
         /\ calls[p][i].args = <<<<>>, space[p].remoteId>>
         /\ space[p].remoteId = TeamId(p)
    /\ Completed(p) /\ Continuation(p) => Cardinality(CallsTo(p, "pull")) = 1

C2_Witness ==
  \E p \in Procs :
    /\ Completed(p)
    /\ Continuation(p)
    /\ CallsTo(p, "pull") # {}
    /\ writes[p].spaceCreate = 1

\* C3 (as claimed): after a completed invocation, for every supplied candidate
\* S bound to project.team.id, S is still in the store as it was, no space was
\* created or changed, and the workspace's parentId is S._id.
C3_ExistingSpaceUntouched ==
  \A p \in Procs :
    Completed(p) =>
      \A S \in BoundCandidates(p) :
        /\ S \in spaces
        /\ spaces = pre[p].spaces
        /\ writes[p].spaceCreate = 0
        /\ \A w \in Roots(p) : w.parentId = S._id

\* C4: after a completed invocation that started with no space bound to
\* project.team.id in the store, the store holds exactly one more space, with
\* name project.team.name and remoteId project.team.id, and the earlier spaces
\* are as they were.
C4_SpaceCreated ==
  \A p \in Procs :
    (Completed(p) /\ {s \in pre[p].spaces : s.remoteId = TeamId(p)} = {}) =>
      /\ pre[p].spaces \subseteq spaces
      /\ Cardinality(spaces \ pre[p].spaces) = 1
      /\ \A s \in spaces \ pre[p].spaces :
           s.name = project[p].team.name /\ s.remoteId = TeamId(p)
      /\ writes[p].spaceCreate = 1

C4_Witness ==
  \E p \in Procs :
    /\ Completed(p)
    /\ {s \in pre[p].spaces : s.remoteId = TeamId(p)} = {}
    /\ pre[p].spaces # {}
    /\ \E s \in spaces \ pre[p].spaces : s.name = project[p].team.name

\* C5: after a completed invocation that started with no workspace whose _id
\* is project.rootDocumentId, exactly one workspace has that _id, and it has
\* name project.name, the resolved space's _id as parentId and scope
\* 'collection'.
C5_WorkspaceCreated ==
  \A p \in Procs :
    (Completed(p) /\ RootsBefore(p) = {}) =>
      /\ Resolved(p)
      /\ Cardinality(Roots(p)) = 1
      /\ \A w \in Roots(p) :
           /\ w.name = project[p].name
           /\ w.parentId = space[p]._id
           /\ w.scope = "collection"

C5_Witness ==
  \E p \in Procs :
    /\ Completed(p)
    /\ RootsBefore(p) = {}
    /\ writes[p].workspaceCreate = 1
    /\ Roots(p) # {}

\* C6: after a completed invocation (first pull or continuation) that started
\* with a workspace whose _id is project.rootDocumentId and whose name or
\* parentId differed from project.name or the resolved space's _id, that
\* workspace has name project.name and the space's _id as parentId, and no
\* workspace was added: the store holds as many workspaces as before and
\* exactly one with that _id.
C6_WorkspaceCorrected ==
  \A p \in Procs :
    (/\ Completed(p)
     /\ \E w \in RootsBefore(p) :
          w.name # project[p].name \/ w.parentId # space[p]._id) =>
      /\ Resolved(p)
      /\ Cardinality(Roots(p)) = 1
      /\ Cardinality(workspaces) = Cardinality(pre[p].workspaces)
      /\ \A w \in Roots(p) :
           w.name = project[p].name /\ w.parentId = space[p]._id

C6_Witness ==
  \E p \in Procs :
    /\ Completed(p)
    /\ \E w \in RootsBefore(p) :
         w.name # project[p].name /\ w.parentId # space[p]._id
    /\ writes[p].workspaceUpdate = 1

\* The record the store holds now, and held before the invocation, for a
\* document returned by allDocuments.
Stored(d) ==
  IF d.type = "Workspace"
  THEN {WorkspaceDoc(w) : w \in {x \in workspaces : x._id = d._id}}
  ELSE {RequestDoc(r) : r \in {x \in requests : x._id = d._id}}

StoredBefore(p, d) ==
  IF d.type = "Workspace"
  THEN {WorkspaceDoc(w) : w \in {x \in pre[p].workspaces : x._id = d._id}}
  ELSE {RequestDoc(r) : r \in {x \in pre[p].requests : x._id = d._id}}

\* C7 (as claimed): after a completed continuation pull, every document
\* returned by allDocuments whose parentId was the workspace's _id has the
\* resolved space's _id as parentId, and every returned document with another
\* parentId is as it was before.
C7_OrphansReparented ==
  \A p \in Procs :
    (Completed(p) /\ Continuation(p)) =>
      \A d \in documents[p] :
        IF d.parentId = RootId(p)
        THEN \A x \in Stored(d) : x.parentId = space[p]._id
        ELSE Stored(d) = StoredBefore(p, d)

\* C7 (amended): after a completed continuation pull, the workspace returned
\* by allDocuments has the resolved space's _id as parentId, and every other
\* returned document, also one whose parentId is the workspace's _id, is as
\* it was before.
C7_OnlyWorkspaceReparented ==
  \A p \in Procs :
    (Completed(p) /\ Continuation(p)) =>
      \A d \in documents[p] :
        IF d.type = "Workspace"
        THEN /\ Stored(d) # {}
             /\ \A x \in Stored(d) : x.parentId = space[p]._id
        ELSE Stored(d) = StoredBefore(p, d)

C7_Witness ==
  \E p \in Procs :
    /\ Completed(p)
    /\ Continuation(p)
    /\ \E d \in documents[p] : d.type = "Request" /\ d.parentId = RootId(p)
    /\ \E d \in documents[p] : d.type = "Request" /\ d.parentId # RootId(p)
    /\ \E d \in documents[p] : d.type = "Workspace" /\ d.parentId # space[p]._id

\* C8: after a completed continuation pull for which allDocuments returned the
\* workspace and a request parented to it, the workspace's parentId is the
\* resolved space's _id, and the store's requests are exactly those it held
\* before, the request still parented to the workspace.
C8_RequestLeftAlone ==
  \A p \in Procs :
    (/\ Completed(p)
     /\ Continuation(p)
     /\ \E d \in documents[p] : d.type = "Workspace" /\ d._id = RootId(p)
     /\ \E d \in documents[p] : d.type = "Request" /\ d.parentId = RootId(p)) =>
      /\ Roots(p) # {}
      /\ \A w \in Roots(p) : w.parentId = space[p]._id
      /\ requests = pre[p].requests
      /\ \A d \in documents[p] :
           (d.type = "Request" /\ d.parentId = RootId(p)) =>
             \E r \in requests : r._id = d._id /\ r.parentId = RootId(p)
      /\ writes[p].documentUpdate = 0

C8_Witness ==
  \E p \in Procs :
    /\ Completed(p)
    /\ Continuation(p)
    /\ \E d \in documents[p] :
         d.type = "Workspace" /\ d._id = RootId(p) /\ d.parentId = NULL
    /\ \E d \in documents[p] : d.type = "Request" /\ d.parentId = RootId(p)
    /\ \E r \in requests : r.parentId = RootId(p)
    /\ CallsTo(p, "pull") # {}

\* C9 (as claimed): a completed invocation that repeats the previous completed
\* one (same project, same getRemoteBranches and allDocuments results) has
\* made no store write and leaves the workspace as it found it.
C9_SecondRunWritesNothing ==
  \A p \in Procs :
    (Completed(p) /\ repeat[p]) =>
      /\ writes[p] = NoWrites
      /\ spaces = pre[p].spaces
      /\ Roots(p) = RootsBefore(p)
      /\ requests = pre[p].requests

\* C10 (as claimed): in every state the store holds at most one space per
\* remoteId.
C10_OneSpacePerRemoteId ==
  \A s \in spaces : \A t \in spaces :
    (isRemoteSpace(s) /\ s.remoteId = t.remoteId) => s = t


\* The operations recorded by the version-control client, in call order.
Ops(p) == [i \in DOMAIN calls[p] |-> calls[p][i].op]

FirstPullOps == <<"setProject", "getRemoteBranches", "checkout">>

ContinuationOps ==
  <<"setProject", "getRemoteBranches", "allDocuments", "pull", "checkout">>

ExpectedOps(p) == IF Continuation(p) THEN ContinuationOps ELSE FirstPullOps

IsPrefix(s, t) == Len(s) <= Len(t) /\ \A i \in 1..Len(s) : s[i] = t[i]

WorkspaceWrites(p) == writes[p].workspaceCreate + writes[p].workspaceUpdate

\* C11: the calls recorded by the client are always a prefix of setProject,
\* getRemoteBranches, [allDocuments, pull,] checkout, setProject being given
\* the project; nothing is written or called before the space is resolved,
\* the workspace is written only with a resolved space and before any call;
\* while the documents wait for their correction no pull is recorded; and a
\* completed invocation has recorded the whole sequence, checkout last.
C11_CallOrder ==
  \A p \in Procs :
    /\ IsPrefix(Ops(p), ExpectedOps(p))
    /\ \A i \in CallsTo(p, "setProject") : calls[p][i].args = <<project[p]>>
    /\ pc[p] = "Unbound" => writes[p] = NoWrites /\ calls[p] = <<>>
    /\ pc[p] = "SpaceResolved" => WorkspaceWrites(p) = 0 /\ calls[p] = <<>>
    /\ WorkspaceWrites(p) > 0 => Resolved(p)
    /\ calls[p] # <<>> => Resolved(p) /\ Roots(p) # {}
    /\ pc[p] \in {"DocumentsFetched", "DocumentsCorrected"} =>
         Len(calls[p]) = 3 /\ CallsTo(p, "pull") = {}
    /\ pc[p] = "DocumentsFetched" => writes[p].documentUpdate = 0
    /\ pc[p] = "Pulled" => Len(calls[p]) = 4
    /\ Completed(p) =>
         /\ Len(calls[p]) = Len(ExpectedOps(p))
         /\ calls[p][Len(calls[p])].op = "checkout"

C11_Witness ==
  \E p \in Procs :
    /\ Completed(p)
    /\ Len(calls[p]) = 5
    /\ calls[p][4].op = "pull"
    /\ writes[p].spaceCreate = 1
    /\ writes[p].workspaceCreate = 1

\* C12: the step at which an invocation fails changes neither the store nor
\* the client's call record (what was written stays written); a failed
\* invocation has recorded no checkout and makes no further step, the store
\* and the call record stay as they are, until the caller starts another
\* invocation.
C12_AbortOnFailure ==
  [][\A p \in Procs :
       /\ (pc[p] # "Failed" /\ pc'[p] = "Failed") =>
            /\ store' = store
            /\ calls'[p] = calls[p]
            /\ writes'[p] = writes[p]
       /\ pc[p] = "Failed" =>
            /\ CallsTo(p, "checkout") = {}
            /\ writes[p].spaceCreate = 1 => space[p] \in spaces
            /\ WorkspaceWrites(p) > 0 => Roots(p) # {}
            /\ pc'[p] \in {"Failed", "Unbound"}
            /\ store' = store
            /\ pc'[p] = "Failed" => calls'[p] = calls[p] /\ writes'[p] = writes[p]
            /\ pc'[p] = "Unbound" => runs' = runs + 1]_vars

C12_Witness ==
  \E p \in Procs :
    /\ pc[p] = "Failed"
    /\ writes[p].spaceCreate = 1
    /\ writes[p].workspaceCreate = 1
    /\ space[p] \in spaces \ pre[p].spaces
    /\ CallsTo(p, "pull") # {}

\* C15: in an invocation whose getRemoteBranches resolves to the empty list,
\* allDocuments is never called, the requests are as they were, and the store
\* differs from what it was by at most one created space and at most one
\* created or updated workspace, the project's.
C15_FirstPullFrame ==
  \A p \in Procs :
    (pc[p] # "Idle" /\ ~Continuation(p)) =>
      /\ CallsTo(p, "allDocuments") = {}
      /\ requests = pre[p].requests
      /\ writes[p].documentUpdate = 0
      /\ writes[p].spaceCreate <= 1
      /\ WorkspaceWrites(p) <= 1
      /\ pre[p].spaces \subseteq spaces
      /\ Cardinality(spaces \ pre[p].spaces) = writes[p].spaceCreate
      /\ workspaces \ Roots(p) = pre[p].workspaces \ RootsBefore(p)
      /\ WorkspaceWrites(p) = 0 => workspaces = pre[p].workspaces

C15_Witness ==
  \E p \in Procs :
    /\ Completed(p)
    /\ ~Continuation(p)
    /\ writes[p].spaceCreate = 1
    /\ writes[p].workspaceUpdate = 1
    /\ requests # {}


\* C13 (as claimed): when an invocation that failed is followed by another for
\* the same project and that one completes, the store is what one invocation
\* that never failed leaves: the space the failed invocation created is the
\* one the project is bound to and no second one is created, the project's
\* workspace is the only one with its id and carries the project's name and
\* the space's id, and the requests are as they were.
C13_ResumedPullConverges ==
  \A p \in Procs :
    (Completed(p) /\ resumed[p].failed) =>
      /\ resumed[p].space # NoSpace =>
           writes[p].spaceCreate = 0 /\ space[p] = resumed[p].space
      /\ \E w \in workspaces :
           /\ Roots(p) = {w}
           /\ w.name = project[p].name
           /\ w.parentId = space[p]._id
      /\ requests = pre[p].requests


\* Two different slots are pulling for the same team.
SameTeam(p, q) ==
  /\ p # q
  /\ pc[p] # "Idle"
  /\ pc[q] # "Idle"
  /\ TeamId(p) = TeamId(q)

\* The lookup of slot p is over.
LookedUp(p) == pc[p] \notin {"Idle", "Unbound"}

\* The candidates slot q searches show the space s.
Sees(q, s) == ~remoteSpaces[q].supplied \/ s \in remoteSpaces[q].list

\* C14: nothing orders two invocations. A slot whose lookup found no space
\* creates one, whatever the store has come to hold in the meantime; two
\* slots that each created a space for the same team leave two spaces with
\* that remoteId in the store; and a slot that started when the other's space
\* was stored, and whose candidates show that space, creates none.
C14_NoLock ==
  [][\A p \in Procs :
       /\ (pc[p] = "SpaceLookedUp" /\ space[p] = NoSpace
             /\ pc'[p] = "SpaceResolved") =>
            /\ space'[p] \notin spaces
            /\ spaces' = spaces \cup {space'[p]}
            /\ space'[p].remoteId = TeamId(p)
       /\ \A q \in Procs :
            (SameTeam(p, q) /\ writes[p].spaceCreate = 1
               /\ writes[q].spaceCreate = 1) =>
              /\ space[p] # space[q]
              /\ {space[p], space[q]} \subseteq getByRemoteId(TeamId(p))
       /\ \A q \in Procs :
            (SameTeam(p, q) /\ LookedUp(q) /\ writes[p].spaceCreate = 1
               /\ space[p] \in pre[q].spaces /\ Sees(q, space[p])) =>
              /\ writes[q].spaceCreate = 0
              /\ space[q].remoteId = TeamId(q)]_vars

\* Both invocations searched the store, found no space and created one each.
C14_Witness ==
  \E p, q \in Procs :
    /\ SameTeam(p, q)
    /\ Completed(p)
    /\ Completed(q)
    /\ ~remoteSpaces[p].supplied
    /\ ~remoteSpaces[q].supplied
    /\ pre[p].spaces = {}
    /\ writes[p].spaceCreate = 1
    /\ writes[q].spaceCreate = 1
    /\ Cardinality(getByRemoteId(TeamId(p))) = 2


-----------------------------------------------------------------------------
\* get-token.ts: the vocabulary of its claims.

\* The invocation is for one of the four grant types and past its lookup.
PastLookup == gt.grantType \in GrantTypes /\ gt.pc \notin {"Idle", "GetAccessToken"}

Returned == gt.grantType \in GrantTypes /\ gt.pc = "Returned"

\* The tokens stored for the request when the invocation started.
StoredAtStart == {t \in gt.stored : t.parentId = gt.requestId}

\* now <= expiresAt, a null or zero expiresAt never expiring.
Usable(token, t) ==
  \/ token.expiresAt = NoNumber
  \/ token.expiresAt[1] = 0
  \/ t <= token.expiresAt[1]

\* The stored token was found expired, or the refresh is forced.
Stale == gt.token # <<>> /\ (~Usable(gt.token[1], gt.checkedAt) \/ gt.forceRefresh)

HasRefreshToken == gt.token # <<>> /\ gt.token[1].refreshToken \notin {Null, ""}

\* A string of an answer, or null when it is missing or empty.
Given(v) == IF v \in {Undefined, ""} THEN Null ELSE v

\* C16: for each of the four grant types, when the token stored for the
\* request is not expired at the lookup (expiresAt null or 0, or now <=
\* expiresAt) and forceRefresh is false, the invocation returns straight from
\* the lookup with that token, having sent no refresh request and no grant
\* request and written nothing to the store.
C16_StoredTokenReturned ==
  \A token \in StoredAtStart :
    (PastLookup /\ Usable(token, gt.checkedAt) /\ ~gt.forceRefresh) =>
      /\ gt.pc = "Returned"
      /\ gt.returned = <<token>>
      /\ gt.refreshRequests = 0
      /\ gt.grantRequests = 0
      /\ gt.storeWrites = 0
      /\ oAuth2Tokens = gt.stored

\* The stored token is returned at the very millisecond of its expiresAt.
C16_Witness ==
  /\ Returned
  /\ ~gt.forceRefresh
  /\ gt.token # <<>>
  /\ gt.returned = gt.token
  /\ gt.token[1].expiresAt = <<gt.checkedAt>>
  /\ gt.grantType = GRANT_TYPE_CLIENT_CREDENTIALS

\* C17: at most one refresh request and one grant request are sent; a refresh
\* request is sent only for a stored token that is expired or forced and has
\* a refreshToken; a grant request is sent only when no token is stored, or
\* the stored one is expired or forced and either has no refreshToken or the
\* refresh answer had no access_token; a returned invocation has sent each
\* request whose condition held; and after a refresh answer with an
\* access_token no grant request is sent.
C17_GrantWhenNoUsableToken ==
  LET refreshFailed ==
        gt.refreshResults # <<>> /\
          gt.refreshResults[1].access_token \in {Undefined, ""}
      refreshDue == Stale /\ HasRefreshToken
      grantDue == \/ gt.token = <<>>
                  \/ Stale /\ (~HasRefreshToken \/ refreshFailed)
  IN gt.grantType \in GrantTypes =>
       /\ gt.refreshRequests <= 1
       /\ gt.grantRequests <= 1
       /\ gt.refreshRequests = 1 => refreshDue
       /\ gt.grantRequests = 1 => PastLookup /\ grantDue
       /\ Returned => (refreshDue => gt.refreshRequests = 1)
       /\ Returned => (grantDue => gt.grantRequests = 1)
       /\ (gt.refreshResults # <<>> /\ ~refreshFailed) => gt.grantRequests = 0

\* The refresh was answered without an access_token and the grant flow ran.
C17_Witness ==
  /\ Returned
  /\ gt.refreshRequests = 1
  /\ gt.grantRequests = 1
  /\ gt.grantType = GRANT_TYPE_PASSWORD

\* C18: once the answer of a refresh or of a grant flow has been stored, the
\* record of the request carries the answer's fields, each null where the
\* answer has none, refreshToken included, and expiresAt null unless the
\* answer has an expires_in; so an invocation that finds the stored token
\* expired or is forced, and finds it without refreshToken, sends no refresh
\* request and runs the grant flow.
C18_TokenOverwritten ==
  /\ (Returned /\ gt.storeWrites > 0) =>
       LET authResults == gt.results[1]
       IN \E token \in oAuth2Tokens :
            /\ getByParentId(gt.requestId) = {token}
            /\ gt.returned = <<token>>
            /\ token.refreshToken = Given(authResults.refresh_token)
            /\ token.accessToken = Given(authResults.access_token)
            /\ token.identityToken = Given(authResults.id_token)
            /\ token.error = Given(authResults.error)
            /\ token.errorDescription = Given(authResults.error_description)
            /\ token.errorUri = Given(authResults.error_uri)
            /\ token.xResponseId = Given(authResults.x_response_id)
            /\ token.xError = Given(authResults.x_error)
            /\ IF authResults.expires_in \in {NoNumber, <<0>>}
               THEN token.expiresAt = NoNumber
               ELSE /\ token.expiresAt # NoNumber
                    /\ token.expiresAt[1] <=
                         now + authResults.expires_in[1] * Second
                    /\ token.expiresAt[1] >
                         authResults.expires_in[1] * Second
  /\ (Returned /\ Stale /\ ~HasRefreshToken) =>
       gt.refreshRequests = 0 /\ gt.grantRequests = 1

\* A refresh answered without refresh_token has erased the stored one.
C18_Witness ==
  /\ Returned
  /\ HasRefreshToken
  /\ gt.refreshRequests = 1
  /\ gt.grantRequests = 0
  /\ gt.results[1].refresh_token = Undefined
  /\ \E token \in getByParentId(gt.requestId) : token.refreshToken = Null

\* C19: the store never holds two token records for one requestId, nor two
\* with one _id, and an invocation leaves the records of the other requests
\* as they were.
C19_OneTokenPerRequest ==
  /\ \A t1, t2 \in oAuth2Tokens :
       (t1.parentId = t2.parentId \/ t1._id = t2._id) => t1 = t2
  /\ gt.pc # "Idle" =>
       {t \in oAuth2Tokens : t.parentId # gt.requestId} =
         {t \in gt.stored : t.parentId # gt.requestId}

\* The record of a request has been updated a second time, beside another's.
C19_Witness ==
  /\ Returned
  /\ gt.storeWrites = 1
  /\ StoredAtStart # {}
  /\ Cardinality(oAuth2Tokens) = 2
  /\ \A t \in StoredAtStart : t \notin oAuth2Tokens

\* The token an error answer leaves: no access token, no expiry, an error.
ErrorToken(token) ==
  /\ token.accessToken = Null
  /\ token.expiresAt = NoNumber
  /\ token.error # Null

\* A grant answer with neither access_token nor expires_in is stored and
\* returned as a token without access token and expiry, with its error.
ErrorAnswerStored ==
  (Returned /\ gt.grantRequests = 1
     /\ gt.results[1].access_token = Undefined
     /\ gt.results[1].expires_in = NoNumber) =>
    \E token \in getByParentId(gt.requestId) :
      /\ gt.returned = <<token>>
      /\ token.accessToken = Null
      /\ token.expiresAt = NoNumber
      /\ token.error = Given(gt.results[1].error)
      /\ token.errorDescription = Given(gt.results[1].error_description)

\* An invocation without forceRefresh that finds an error token returns it
\* from the lookup.
ErrorTokenReturned ==
  \A token \in StoredAtStart :
    (PastLookup /\ ErrorToken(token) /\ ~gt.forceRefresh) =>
      /\ gt.pc = "Returned"
      /\ gt.returned = <<token>>
      /\ gt.refreshRequests + gt.grantRequests = 0
      /\ gt.storeWrites = 0

\* C20: a grant answer with neither access_token nor expires_in is stored and
\* returned as a token with accessToken null, expiresAt null and the answer's
\* error; an invocation without forceRefresh that finds such a token returns
\* it from the lookup, with no request sent and nothing written; and no step
\* of an invocation without forceRefresh replaces such a token.
C20_ErrorTokenSticks ==
  /\ [](ErrorAnswerStored /\ ErrorTokenReturned)
  /\ [][\A token \in oAuth2Tokens :
          (ErrorToken(token) /\ ~gt'.forceRefresh) =>
            token \in oAuth2Tokens']_vars

\* A later invocation returns the token a denied grant left.
C20_Witness ==
  /\ Returned
  /\ ~gt.forceRefresh
  /\ gt.token # <<>>
  /\ gt.returned = gt.token
  /\ gt.token[1].error = "invalid_grant"
  /\ gt.token[1].accessToken = Null
  /\ gt.checkedAt = Second * MaxSeconds

=============================================================================
